---- MODULE Spec2Model ----
(***************************************************************************)
(* A model of mtp/server.go: the live-view server LVServer.  Every         *)
(* goroutine of the server is a process with a program counter: the        *)
(* supervisor Run, the five workers it starts (workerLV, workerAF,         *)
(* frameCaptorSakura, workerBroadcastFrame, workerBroadcastInfo) and the   *)
(* HTTP handlers (HandleControl, HandleStream, HandleMotionJPEG,           *)
(* HandleSnapshot).  A step is taken at every point where a goroutine can  *)
(* block or be observed: a mutex acquisition, a channel operation, the     *)
(* start and the end of a device round-trip, the start and the end of a    *)
(* client write.                                                           *)
(***************************************************************************)
EXTENDS Naturals, Integers, Sequences, FiniteSets, TLC

\* Frames the device delivers before it only reports errors.
MaxFrames == 2
\* Control messages one /control connection sends before it disconnects.
MaxMsgs == 1
\* Requests served by the /snapshot handler.
MaxSnaps == 1
\* Control messages a connection that sends only autofocus messages sends.
MaxAFMsgs == 3
\* Control messages a connection that sends only rate-limit messages sends.
MaxLRMsgs == 2
\* s.model.HeaderSize, in bytes: the model's captures have one byte of JPEG.
HeaderSize == 2

Workers == {"LV", "AF", "FC", "BF", "BI"}
Handlers == {"HC", "SH", "SH2", "MH", "SN"}
Procs == Workers \cup Handlers \cup {"Run"}
DevProcs == {"Run", "LV", "AF", "FC", "HC"}
Locks == {"mtpLock", "streamLock", "motionLock", "controlLock", "frameLock", "infoLock"}

VARIABLES
    pc,             \* position of every goroutine
    lock,           \* holder of every sync.Mutex of LVServer, or "none"
    cancelled,      \* s.ctx.Done() is closed
    dummy,          \* s.dummy: the server was built with dev == nil
    maxResolution,  \* s.maxResolution
    tx,             \* the device transaction each goroutine is inside, or "none"
    cam,            \* the camera: live view on/off, ISO, f-number (x100)
    captured,       \* frames the device has delivered so far
    lv,             \* frameCaptorSakura's local lv: the capture it holds, 0 for none
    Frame,          \* s.Frame: the capture stored last, 0 for nil
    info,           \* s.info: AF, LR, the capture Width/Height are of, Frame
    newFrameChan,   \* notifications buffered in s.newFrameChan (capacity 1)
    fps,            \* s.fpsRate: Incr calls so far
    afRunning,      \* s.afTicker is started
    afTickC,        \* ticks buffered in s.afTicker.C
    afInterval,     \* s.afInterval
    lrFPS,          \* s.lrFPS
    afCause,        \* what woke workerAF: "none", "tick" or "now"
    msg,            \* the ControlPayload HandleControl is processing
    nMsgs,          \* control messages read so far
    streamClients,  \* s.streamClients
    controlClients, \* s.controlClients
    motionClients,  \* s.motionClients
    jpeg,           \* workerBroadcastFrame's local jpeg
    todo,           \* clients a broadcast loop has still to write to
    cur,            \* client each broadcaster is writing to, or "none"
    fnLog,          \* history: the device transactions begun since setFN's first
    hist            \* history: what the properties below speak about

vars == <<pc, lock, cancelled, dummy, maxResolution, tx, cam, captured, lv, Frame, info,
          newFrameChan, fps, afRunning, afTickC, afInterval, lrFPS, afCause,
          msg, nMsgs, streamClients, controlClients, motionClients, jpeg,
          todo, cur, fnLog, hist>>

cfgv == <<dummy, maxResolution>>
devv == <<tx, fnLog>>
framev == <<lv, Frame, info, newFrameChan, fps>>
afv == <<afRunning, afTickC, afInterval, afCause>>
ctlv == <<msg, nMsgs, lrFPS>>
clientv == <<streamClients, controlClients, motionClients>>
bcv == <<jpeg, todo, cur>>

----------------------------------------------------------------------------
(* Pure functions *)

RECURSIVE Pow2(_)
Pow2(n) == IF n = 0 THEN 1 ELSE 2 * Pow2(n - 1)

RECURSIVE Pow2Mod100(_)
Pow2Mod100(n) == IF n = 0 THEN 1 ELSE (2 * Pow2Mod100(n - 1)) % 100

\* floor(log2 k) for k >= 1
RECURSIVE Log2Floor(_)
Log2Floor(k) == IF k < 2 THEN 0 ELSE 1 + Log2Floor(k \div 2)

\* The binary exponent of k/100 (k >= 1): the i with 2^i <= k/100 < 2^(i+1),
\* returned as i + 7, which is >= 0 for every k >= 1.
RECURSIVE ExpOfHundredths(_)
ExpOfHundredths(k) ==
    IF k >= 100 THEN 7 + Log2Floor(k \div 100)
    ELSE ExpOfHundredths(2 * k) - 1

\* uint16(fnf * 100) of setFN, for fnf = strconv.ParseFloat of the decimal
\* string k/100 (0 <= k <= 65535), computed as IEEE-754 binary64 computes it.
\* ParseFloat rounds k/100 to m * 2^-p with a 53-bit m, p = 52 - i; the
\* rounding error, in units of 2^-p, is -r/100 (r < 50) or (100-r)/100 with
\* r = (k * 2^p) mod 100.  The product fnf * 100 is then k - r * 2^-p or
\* k + (100 - r) * 2^-p exactly, and is rounded to the doubles around k,
\* which lie 2^(j-i) units apart (j = floor(log2 k); half of that below a
\* power of two).  It rounds to a double below k, which the conversion to
\* uint16 truncates to k - 1, exactly when r < 50 exceeds half that gap.
FnTimes100(k) ==
    IF k = 0 THEN 0
    ELSE LET e == ExpOfHundredths(k)
             j == Log2Floor(k)
             p == 52 - (e - 7)
             r == ((k % 100) * Pow2Mod100(p)) % 100
             half == IF j - (e - 7) = 6 \/ Pow2(j) = k THEN 32 ELSE 64
         IN  IF half < r /\ r < 50 THEN k - 1 ELSE k

----------------------------------------------------------------------------
(* The control messages a client sends.  has: the fields present. *)

Payload(has, af, lr, iso, fn) ==
    [has |-> has, af |-> af, lr |-> lr, iso |-> iso, fn |-> fn]

NoPayload == Payload({}, 0, 0, 0, 0)

\* f-numbers a client sends, in hundredths: "5.6" and "4.1".
FNInputs == {560, 410}

\* {"iso": 200} and {"fn": "5.6"}, {"fn": "4.1"}
DevMsgs ==
    {Payload({"iso"}, 0, 0, 200, 0)} \cup {Payload({"fn"}, 0, 0, 0, k) : k \in FNInputs}

\* {"af_interval": 0}, {"af_interval": 5} and {"af_focus_now": true}
AFMsgs ==
    {Payload({"af"}, 0, 0, 0, 0), Payload({"af"}, 5, 0, 0, 0),
     Payload({"now"}, 0, 0, 0, 0)}

\* {"lr_fps": 2}
LRMsgs == {Payload({"lr"}, 0, 2, 0, 0)}

\* messages that carry all five fields, with af_interval -1, 0 and 5:
\* {"af_interval": -1, "af_focus_now": true, "lr_fps": 2, "iso": 200,
\*  "fn": "5.6"}
FullMsgs ==
    {Payload({"af", "now", "lr", "iso", "fn"}, a, 2, 200, 560) : a \in {-1, 0, 5}}

\* {"lr_fps": 2} and {"lr_fps": 0}
RateMsgs == {Payload({"lr"}, 0, r, 0, 0) : r \in {2, 0}}

Msgs == DevMsgs \cup AFMsgs \cup LRMsgs

----------------------------------------------------------------------------
(* Helpers *)

Alive == pc["Run"] \notin {"fatal", "panicked"}

Free(l) == lock[l] = "none"

AllWorkersDone == \A w \in Workers : pc[w] = "done"

\* setFN is between its first transaction and its return
FnActive == pc["HC"] \in {"fn_end_tx", "fn_set_tx", "fn_start_tx"}

Entry(p, op, arg) == [p |-> p, op |-> op, arg |-> arg]

\* p starts a device round-trip
BeginTx(p, op, arg) ==
    /\ tx' = [tx EXCEPT ![p] = op]
    /\ fnLog' = IF p = "HC" /\ op = "EndLiveView" THEN <<Entry(p, op, arg)>>
                ELSE IF FnActive THEN Append(fnLog, Entry(p, op, arg))
                ELSE fnLog

\* p's round-trip ends
EndTx(p) == tx' = [tx EXCEPT ![p] = "none"] /\ UNCHANGED fnLog

\* p ends one round-trip and starts the next without leaving the device
NextTx(p, op, arg) == BeginTx(p, op, arg)

Goto(p, to) == pc' = [pc EXCEPT ![p] = to]

Readers == {"BF", "BI", "SN"}

\* What RunTransaction(GetLiveViewImg) gives back: an error, or len bytes
Reply(err, len) == [err |-> err, len |-> len]
NoReply == Reply("none", 0)
ImgReplies ==
    {Reply("NotLiveView", 0), Reply("other", 0)}
    \cup {Reply("none", n) : n \in HeaderSize..(HeaderSize + 1)}

\* val&(1<<i) > 0 in uint32 arithmetic: 1<<i is 0 from i = 32 on
RECURSIVE ShiftRight(_, _)
ShiftRight(val, i) == IF i = 0 THEN val ELSE ShiftRight(val \div 2, i - 1)

BitSet(val, i) == i < 32 /\ ShiftRight(val, i) % 2 = 1

RECURSIVE ScanUp(_, _)
ScanUp(val, i) ==
    IF i >= 64 THEN -1
    ELSE IF BitSet(val, i) THEN i
    ELSE ScanUp(val, i + 1)

RECURSIVE ScanDown(_, _)
ScanDown(val, i) ==
    IF i < 0 THEN -1
    ELSE IF BitSet(val, i) THEN i
    ELSE ScanDown(val, i - 1)

\* A faulty scan: the highest set bit
bitScan_Highest(val) == ScanDown(val, 63)

\* bitScan: the first i in 0..63 whose bit is set, -1 for none
bitScan(val) == ScanUp(val, 0)

\* the switch of readLiveViewProhibitCondition
ProhibitReason(b) ==
    CASE b = -1 -> "(empty)"
      [] b = 0 -> "recording destination is the card"
      [] b = 2 -> "sequence error"
      [] b = 4 -> "button is fully pressed"
      [] b = 5 -> "aperture value is set by the lens"
      [] b = 6 -> "bulb error"
      [] b = 7 -> "during cleaning"
      [] b = 8 -> "insufficient battery"
      [] b = 9 -> "TTL error"
      [] b = 11 -> "non-CPU lens is mounted and the mode is not M"
      [] b = 12 -> "there are images which are recorded in SDRAM"
      [] b = 13 -> "the release mode is mirror-up"
      [] b = 14 -> "no card inserted"
      [] b = 15 -> "shot command is being processed"
      [] b = 16 -> "shooting in progress"
      [] b = 17 -> "overheated"
      [] b = 18 -> "card is protected"
      [] b = 19 -> "card error"
      [] b = 20 -> "card is not formatted"
      [] b = 21 -> "bulb error"
      [] b = 22 -> "the release mode is mirror-up and it is being processed"
      [] b = 24 -> "the lens is not extended"
      [] OTHER -> "unknown reason"

\* LiveViewProhibitCondition values the camera may hold
Bitmaps ==
    {0, Pow2(8), Pow2(8) + Pow2(14), Pow2(0) + Pow2(8), Pow2(3) + Pow2(8),
     Pow2(1) + Pow2(3), Pow2(24), Pow2(25), Pow2(30)}

\* The error startLiveView returns
LVError(kind, reason) == [kind |-> kind, reason |-> reason]
NoErr == LVError("none", "")

\* The camera's Resolution property: the value it holds (0 until one is
\* written), the Form of its description with the choices in the order the
\* device lists them, and model.ResolutionType
Resolution(type, form, choices) ==
    [cur |-> 0, type |-> type, form |-> form, choices |-> choices]

\* The cameras of the resolution specification: ResolutionType 8 or 64, the
\* three choices in every order, no choice at all, or a Form that is not an
\* enumeration
Resolutions ==
    {Resolution(t, "enum", c) :
        t \in {8, 64},
        c \in {<<1, 2, 3>>, <<1, 3, 2>>, <<2, 1, 3>>, <<2, 3, 1>>, <<3, 1, 2>>,
               <<3, 2, 1>>, <<>>}}
    \cup {Resolution(64, "range", <<>>)}

\* choices[len(choices)-1]
Chosen(choices) == choices[Len(choices)]

\* Resolution64(v) or Resolution8(v)
Serialised(v, type) == IF type = 8 THEN v % 256 ELSE v

\* No camera state on record
NoCam ==
    [lv |-> FALSE, iso |-> 0, fn |-> 0, prohibit |-> 0,
     resolution |-> Resolution(64, "enum", <<>>)]

DefaultResolution == Resolution(64, "enum", <<1, 2>>)

InitWith(bitmap, maxRes, res) ==
    /\ pc = [p \in Procs |-> IF p = "Run" THEN "start"
                             ELSE IF p \in Workers THEN "off" ELSE "idle"]
    /\ lock = [l \in Locks |-> "none"]
    /\ cancelled = FALSE
    /\ dummy \in BOOLEAN
    /\ maxResolution = maxRes
    /\ tx = [p \in DevProcs |-> "none"]
    /\ cam = [lv |-> FALSE, iso |-> 100, fn |-> 350, prohibit |-> bitmap,
              resolution |-> res]
    /\ captured = 0
    /\ lv = 0
    /\ Frame = 0
    /\ info = [AF |-> 0, LR |-> 0, W |-> 0, Frame |-> 0]
    /\ newFrameChan = 0
    /\ fps = 0
    /\ afRunning = TRUE
    /\ afTickC = 0
    /\ afInterval = 5
    /\ lrFPS = 0
    /\ afCause = "none"
    /\ msg = NoPayload
    /\ nMsgs = 0
    /\ streamClients = {}
    /\ controlClients = {}
    /\ motionClients = {}
    /\ jpeg = 0
    /\ todo = [b \in {"BF", "BI"} |-> {}]
    /\ cur = [b \in {"BF", "BI"} |-> "none"]
    /\ fnLog = <<>>
    /\ hist = [nStored |-> 0,
               readAt |-> [r \in Readers |-> 0],
               readVal |-> [r \in Readers |-> 0],
               lastSent |-> 0,
               fnResult |-> "none", fnArg |-> 0,
               runEndLV |-> 0, endAfterWorkers |-> FALSE,
               stopSeen |-> FALSE, nowMsgs |-> 0, nowTaken |-> 0,
               nowPending |-> FALSE, nowDrives |-> 0,
               tickDriveAfterStop |-> FALSE,
               nilCalls |-> 0, snaps |-> 0,
               camBefore |-> NoCam, failKept |-> TRUE,
               lastReply |-> NoReply,
               sentTo |-> {}, wrErr |-> "none",
               lvErr |-> NoErr, endOk |-> FALSE, polled |-> "none",
               divisor |-> 1]

\* The state after NewLVServer, with a camera that refuses live view for no
\* stated reason
Init == InitWith(0, FALSE, DefaultResolution)

\* The state after NewLVServer, with a camera in any of the prohibit
\* conditions
InitReason == \E b \in Bitmaps : InitWith(b, FALSE, DefaultResolution)

\* The state after NewLVServer(ctx, dev, true), with any of the cameras
InitRes == \E r \in Resolutions : InitWith(0, TRUE, r)

----------------------------------------------------------------------------
(* The parent context is cancelled *)

Cancel ==
    /\ Alive /\ ~cancelled
    /\ cancelled' = TRUE
    /\ UNCHANGED <<pc, lock, cfgv, devv, cam, captured, framev, afv, ctlv,
                   clientv, bcv, hist>>

----------------------------------------------------------------------------
(* Run: the supervisor *)

\* s.dev.ID(), called without mtpLock.  With no device s.dev is nil and the
\* call panics: the deferred endLiveView returns at once (dummy) and the
\* process dies.
Run_ID_Begin ==
    /\ pc["Run"] = "start"
    /\ IF dummy
       THEN /\ Goto("Run", "panicked")
            /\ hist' = [hist EXCEPT !.nilCalls = @ + 1]
            /\ UNCHANGED devv
       ELSE /\ Goto("Run", "id_tx")
            /\ BeginTx("Run", "ID", 0)
            /\ UNCHANGED hist
    /\ UNCHANGED <<lock, cancelled, cfgv, cam, captured, framev, afv, ctlv,
                   clientv, bcv>>

\* ID returns; an error is fatal (log.Fatalf ends the process)
Run_ID_End ==
    /\ pc["Run"] = "id_tx"
    /\ EndTx("Run")
    /\ \E ok \in BOOLEAN : Goto("Run", IF ok THEN "isos" ELSE "fatal")
    /\ UNCHANGED <<lock, cancelled, cfgv, cam, captured, framev, afv, ctlv,
                   clientv, bcv, hist>>

\* getISOs / getFNs: Lock, GetDevicePropDesc, Unlock
GetProp_Begin(p, at, code, to) ==
    /\ Alive
    /\ pc[p] = at
    /\ Free("mtpLock")
    /\ IF dummy
       THEN /\ Goto(p, to)
            /\ UNCHANGED <<lock, devv>>
       ELSE /\ lock' = [lock EXCEPT !["mtpLock"] = p]
            /\ BeginTx(p, "GetDevicePropDesc:" \o code, 0)
            /\ Goto(p, at \o "_tx")

Run_GetISOs_Begin ==
    /\ GetProp_Begin("Run", "isos", "ExposureIndex", "fns")
    /\ UNCHANGED <<cancelled, cfgv, cam, captured, framev, afv, ctlv,
                   clientv, bcv, hist>>

Run_GetISOs_End ==
    /\ pc["Run"] = "isos_tx"
    /\ EndTx("Run")
    /\ lock' = [lock EXCEPT !["mtpLock"] = "none"]
    /\ Goto("Run", "fns")
    /\ UNCHANGED <<cancelled, cfgv, cam, captured, framev, afv, ctlv,
                   clientv, bcv, hist>>

Run_GetFNs_Begin ==
    /\ GetProp_Begin("Run", "fns", "FNumber", "spawn1")
    /\ UNCHANGED <<cancelled, cfgv, cam, captured, framev, afv, ctlv,
                   clientv, bcv, hist>>

Run_GetFNs_End ==
    /\ pc["Run"] = "fns_tx"
    /\ EndTx("Run")
    /\ lock' = [lock EXCEPT !["mtpLock"] = "none"]
    /\ Goto("Run", "spawn1")
    /\ UNCHANGED <<cancelled, cfgv, cam, captured, framev, afv, ctlv,
                   clientv, bcv, hist>>

\* s.eg.Go(s.workerLV); s.eg.Go(s.workerAF)
Run_Spawn1 ==
    /\ pc["Run"] = "spawn1"
    /\ pc' = [pc EXCEPT !["Run"] = "sleep", !["LV"] = "select", !["AF"] = "select"]
    /\ UNCHANGED <<lock, cancelled, cfgv, devv, cam, captured, framev, afv,
                   ctlv, clientv, bcv, hist>>

\* time.Sleep(500ms); s.eg.Go of the captor and the two broadcasters
Run_Spawn2 ==
    /\ pc["Run"] = "sleep"
    /\ pc' = [pc EXCEPT !["Run"] = "wait", !["FC"] = "loop",
                        !["BF"] = "select", !["BI"] = "select"]
    /\ UNCHANGED <<lock, cancelled, cfgv, devv, cam, captured, framev, afv,
                   ctlv, clientv, bcv, hist>>

\* A faulty Wait: it returns as soon as one worker has returned
WaitReturns_First == \E w \in Workers : pc[w] = "done"

\* s.eg.Wait() returns once every worker has returned
WaitReturns == AllWorkersDone

Run_Wait ==
    /\ pc["Run"] = "wait"
    /\ WaitReturns
    /\ Goto("Run", "end")
    /\ UNCHANGED <<lock, cancelled, cfgv, devv, cam, captured, framev, afv,
                   ctlv, clientv, bcv, hist>>

\* the deferred endLiveView: Lock, EndLiveView
Run_End_Begin ==
    /\ pc["Run"] = "end"
    /\ Free("mtpLock")
    /\ lock' = [lock EXCEPT !["mtpLock"] = "Run"]
    /\ BeginTx("Run", "EndLiveView", 0)
    /\ Goto("Run", "end_tx")
    /\ hist' = [hist EXCEPT !.runEndLV = @ + 1, !.endAfterWorkers = AllWorkersDone]
    /\ UNCHANGED <<cancelled, cfgv, cam, captured, framev, afv, ctlv,
                   clientv, bcv>>

\* EndLiveView returns, with or without an error; Unlock; Run returns
Run_End_End ==
    /\ pc["Run"] = "end_tx"
    /\ EndTx("Run")
    /\ lock' = [lock EXCEPT !["mtpLock"] = "none"]
    /\ \E ok \in BOOLEAN :
        /\ cam' = IF ok THEN [cam EXCEPT !.lv = FALSE] ELSE cam
        /\ hist' = [hist EXCEPT !.endOk = ok]
    /\ Goto("Run", "returned")
    /\ UNCHANGED <<cancelled, cfgv, captured, framev, afv, ctlv, clientv,
                   bcv>>

RunStep ==
    \/ Run_ID_Begin \/ Run_ID_End
    \/ Run_GetISOs_Begin \/ Run_GetISOs_End
    \/ Run_GetFNs_Begin \/ Run_GetFNs_End
    \/ Run_Spawn1 \/ Run_Spawn2 \/ Run_Wait
    \/ Run_End_Begin \/ Run_End_End

----------------------------------------------------------------------------
(* workerLV: the live-view lifecycle worker *)

\* case <-tick.C
LV_Tick ==
    /\ Alive
    /\ pc["LV"] = "select"
    /\ Goto("LV", "status")
    /\ hist' = [hist EXCEPT !.lvErr = NoErr, !.polled = "none"]
    /\ UNCHANGED <<lock, cancelled, cfgv, devv, cam, captured, framev, afv,
                   ctlv, clientv, bcv>>

\* case <-s.ctx.Done()
LV_Done ==
    /\ Alive
    /\ pc["LV"] = "select"
    /\ cancelled
    /\ Goto("LV", "done")
    /\ hist' = [hist EXCEPT !.lvErr = NoErr, !.polled = "none"]
    /\ UNCHANGED <<lock, cancelled, cfgv, devv, cam, captured, framev, afv,
                   ctlv, clientv, bcv>>

\* getLiveViewStatus: Lock, GetDevicePropValue(LiveViewStatus)
LV_Status_Begin ==
    /\ Alive
    /\ pc["LV"] = "status"
    /\ Free("mtpLock")
    /\ IF dummy
       THEN /\ Goto("LV", "select")
            /\ UNCHANGED <<lock, devv>>
       ELSE /\ lock' = [lock EXCEPT !["mtpLock"] = "LV"]
            /\ BeginTx("LV", "GetDevicePropValue:LiveViewStatus", 0)
            /\ Goto("LV", "status_tx")
    /\ UNCHANGED <<cancelled, cfgv, cam, captured, framev, afv, ctlv,
                   clientv, bcv, hist>>

\* What the camera answers to a LiveViewStatus read: end-of-stream when live
\* view is on, a value when it is off, or it fails.
StatusReplies == {IF cam.lv THEN "eof" ELSE "value", "err"}

\* A faulty poll: the status is taken the wrong way round
StartsLiveView_OnEOF(r) == r = "eof"

\* workerLV goes on to startLiveView: err == nil and status is false, where
\* status is err == io.EOF
StartsLiveView(r) == r # "err" /\ ~(r = "eof")

\* getLiveViewStatusInner returns r; Unlock; workerLV starts live view or
\* goes back to its select
LV_Status_Reply(r) ==
    /\ Alive
    /\ pc["LV"] = "status_tx"
    /\ r \in StatusReplies
    /\ EndTx("LV")
    /\ lock' = [lock EXCEPT !["mtpLock"] = "none"]
    /\ Goto("LV", IF StartsLiveView(r) THEN "slv" ELSE "select")
    /\ hist' = [hist EXCEPT !.polled = r]
    /\ UNCHANGED <<cancelled, cfgv, cam, captured, framev, afv, ctlv,
                   clientv, bcv>>

LV_Status_End == \E r \in {"eof", "value", "err"} : LV_Status_Reply(r)

\* the read succeeds
LV_Status_Answered == LV_Status_Reply("eof") \/ LV_Status_Reply("value")

\* startLiveView: Lock, DeviceReady
LV_Start_Begin ==
    /\ Alive
    /\ pc["LV"] = "slv"
    /\ Free("mtpLock")
    /\ lock' = [lock EXCEPT !["mtpLock"] = "LV"]
    /\ BeginTx("LV", "DeviceReady", 0)
    /\ Goto("LV", "slv_ready_tx")
    /\ hist' = [hist EXCEPT !.polled = "none"]
    /\ UNCHANGED <<cancelled, cfgv, cam, captured, framev, afv, ctlv,
                   clientv, bcv>>

\* DeviceReady returns: on an error startLiveView returns, else it goes on
\* to changeResolution if maxResolution is set and to StartLiveView if not
\* (model.QuirkSwitchMedia is off)
LV_Ready_End ==
    /\ Alive
    /\ pc["LV"] = "slv_ready_tx"
    /\ \E ok \in BOOLEAN :
        IF ok
        THEN /\ IF maxResolution
                THEN /\ NextTx("LV", "GetDevicePropDesc:Resolution", 0)
                     /\ Goto("LV", "slv_res_desc_tx")
                ELSE /\ NextTx("LV", "StartLiveView", 0)
                     /\ Goto("LV", "slv_start_tx")
             /\ UNCHANGED lock
        ELSE /\ EndTx("LV")
             /\ lock' = [lock EXCEPT !["mtpLock"] = "none"]
             /\ Goto("LV", "select")
    /\ UNCHANGED <<cancelled, cfgv, cam, captured, framev, afv, ctlv,
                   clientv, bcv, hist>>

\* changeResolution: GetDevicePropDesc(Resolution) returns.  On an error, or
\* a Form that is no enumeration, changeResolution returns an error, which
\* startLiveView only warns about; indexing an empty list of choices
\* panics; otherwise the last choice is written
LV_ResDesc_End ==
    /\ Alive
    /\ pc["LV"] = "slv_res_desc_tx"
    /\ \E ok \in BOOLEAN :
        IF ~ok \/ cam.resolution.form # "enum"
        THEN /\ NextTx("LV", "StartLiveView", 0)
             /\ Goto("LV", "slv_start_tx")
        ELSE IF cam.resolution.choices = <<>>
        THEN /\ EndTx("LV")
             /\ pc' = [pc EXCEPT !["LV"] = "panicked", !["Run"] = "panicked"]
        ELSE /\ NextTx("LV", "SetDevicePropValue:Resolution",
                       Serialised(Chosen(cam.resolution.choices),
                                  cam.resolution.type))
             /\ Goto("LV", "slv_res_set_tx")
    /\ UNCHANGED <<lock, cancelled, cfgv, cam, captured, framev, afv, ctlv,
                   clientv, bcv, hist>>

\* changeResolution: SetDevicePropValue(Resolution) returns, with or without
\* an error; StartLiveView is issued next
LV_ResSet_End ==
    /\ Alive
    /\ pc["LV"] = "slv_res_set_tx"
    /\ \E ok \in BOOLEAN :
        cam' = IF ok
               THEN [cam EXCEPT !.resolution.cur =
                        Serialised(Chosen(cam.resolution.choices),
                                   cam.resolution.type)]
               ELSE cam
    /\ NextTx("LV", "StartLiveView", 0)
    /\ Goto("LV", "slv_start_tx")
    /\ UNCHANGED <<lock, cancelled, cfgv, captured, framev, afv, ctlv,
                   clientv, bcv, hist>>

\* StartLiveView returns: success, InvalidStatus (the prohibit condition is
\* read next) or another error
LV_StartLV_End ==
    /\ Alive
    /\ pc["LV"] = "slv_start_tx"
    /\ \E r \in {"ok", "InvalidStatus", "err"} :
        IF r = "InvalidStatus"
        THEN /\ NextTx("LV", "GetDevicePropValue:LiveViewProhibitCondition", 0)
             /\ Goto("LV", "slv_reason_tx")
             /\ UNCHANGED <<lock, cam>>
        ELSE /\ EndTx("LV")
             /\ lock' = [lock EXCEPT !["mtpLock"] = "none"]
             /\ cam' = IF r = "ok" THEN [cam EXCEPT !.lv = TRUE] ELSE cam
             /\ Goto("LV", "select")
    /\ UNCHANGED <<cancelled, cfgv, captured, framev, afv, ctlv, clientv,
                   bcv, hist>>

\* readLiveViewProhibitCondition returns; Unlock
LV_Reason_End ==
    /\ Alive
    /\ pc["LV"] = "slv_reason_tx"
    /\ EndTx("LV")
    /\ lock' = [lock EXCEPT !["mtpLock"] = "none"]
    /\ \E ok \in BOOLEAN :
        hist' = [hist EXCEPT !.lvErr =
                    IF ok
                    THEN LVError("reason", ProhibitReason(bitScan(cam.prohibit)))
                    ELSE LVError("investigate", "")]
    /\ Goto("LV", "select")
    /\ UNCHANGED <<cancelled, cfgv, cam, captured, framev, afv, ctlv,
                   clientv, bcv>>

LVStep ==
    \/ LV_Tick \/ LV_Done \/ LV_Status_Begin \/ LV_Status_End
    \/ LV_Start_Begin \/ LV_Ready_End \/ LV_StartLV_End \/ LV_Reason_End

\* the steps of changeResolution, taken only with maxResolution set
LVResStep == LV_ResDesc_End \/ LV_ResSet_End

----------------------------------------------------------------------------
(* The mutable ticker s.afTicker, and workerAF *)

\* The ticker delivers a tick on C (capacity 1) while it is started
Ticker_Tick ==
    /\ Alive
    /\ afRunning
    /\ afTickC = 0
    /\ afTickC' = 1
    /\ UNCHANGED <<pc, lock, cancelled, cfgv, devv, cam, captured, framev,
                   afRunning, afInterval, afCause, ctlv, clientv, bcv, hist>>

\* case <-s.afTicker.C
AF_Tick ==
    /\ Alive
    /\ pc["AF"] = "select"
    /\ afTickC = 1
    /\ afTickC' = 0
    /\ afCause' = "tick"
    /\ Goto("AF", "af")
    /\ UNCHANGED <<lock, cancelled, cfgv, devv, cam, captured, framev,
                   afRunning, afInterval, ctlv, clientv, bcv, hist>>

\* case <-s.ctx.Done()
AF_Done ==
    /\ Alive
    /\ pc["AF"] = "select"
    /\ cancelled
    /\ Goto("AF", "done")
    /\ UNCHANGED <<lock, cancelled, cfgv, devv, cam, captured, framev, afv,
                   ctlv, clientv, bcv, hist>>

\* A faulty autoFocus: it returns without driving the lens
AF_Focus_Begin_Skip ==
    /\ Alive
    /\ pc["AF"] = "af"
    /\ Free("mtpLock")
    /\ Goto("AF", "select")
    /\ afCause' = "none"
    /\ hist' = [hist EXCEPT !.nowPending = FALSE]
    /\ UNCHANGED <<lock, devv, cancelled, cfgv, cam, captured, framev,
                   afRunning, afTickC, afInterval, ctlv, clientv, bcv>>

\* autoFocus: Lock, AfDrive
AF_Focus_Begin ==
    /\ Alive
    /\ pc["AF"] = "af"
    /\ Free("mtpLock")
    /\ IF dummy
       THEN /\ Goto("AF", "select")
            /\ afCause' = "none"
            /\ UNCHANGED <<lock, devv, hist>>
       ELSE /\ lock' = [lock EXCEPT !["mtpLock"] = "AF"]
            /\ BeginTx("AF", "AfDrive", 0)
            /\ Goto("AF", "af_tx")
            /\ hist' = [hist EXCEPT
                 !.nowDrives = IF afCause = "now" /\ hist.nowPending
                               THEN @ + 1 ELSE @,
                 !.nowPending = FALSE,
                 !.tickDriveAfterStop = @ \/ (afCause = "tick" /\ hist.stopSeen)]
            /\ UNCHANGED afCause
    /\ UNCHANGED <<cancelled, cfgv, cam, captured, framev, afRunning,
                   afTickC, afInterval, ctlv, clientv, bcv>>

\* AfDrive returns; Unlock
AF_Focus_End ==
    /\ Alive
    /\ pc["AF"] = "af_tx"
    /\ EndTx("AF")
    /\ lock' = [lock EXCEPT !["mtpLock"] = "none"]
    /\ afCause' = "none"
    /\ Goto("AF", "select")
    /\ UNCHANGED <<cancelled, cfgv, cam, captured, framev, afRunning,
                   afTickC, afInterval, ctlv, clientv, bcv, hist>>

AFStep == AF_Tick \/ AF_Done \/ AF_Focus_Begin \/ AF_Focus_End

----------------------------------------------------------------------------
(* frameCaptorSakura: the frame captor *)

\* select { case <-s.ctx.Done(): return nil; default: }
FC_Done ==
    /\ Alive
    /\ pc["FC"] = "loop"
    /\ cancelled
    /\ Goto("FC", "done")
    /\ hist' = [hist EXCEPT !.lastReply = NoReply]
    /\ UNCHANGED <<lock, cancelled, cfgv, devv, cam, captured, framev, afv,
                   ctlv, clientv, bcv>>

\* the default branch: with no device sleep and loop; else the first
\* s.lrFPS.Load(), which leads to the rate limiter or straight to the capture
FC_Go ==
    /\ Alive
    /\ pc["FC"] = "loop"
    /\ ~cancelled
    /\ Goto("FC", IF dummy THEN "loop"
                   ELSE IF lrFPS > 0 THEN "throttle" ELSE "img")
    /\ hist' = [hist EXCEPT !.lastReply = NoReply]
    /\ UNCHANGED <<lock, cancelled, cfgv, devv, cam, captured, framev, afv,
                   ctlv, clientv, bcv>>

\* the rate limiter: time.Second / time.Duration(s.lrFPS.Load()), with a
\* second Load; an integer division by zero panics, else the captor sleeps
FC_Throttle ==
    /\ Alive
    /\ pc["FC"] = "throttle"
    /\ hist' = [hist EXCEPT !.divisor = lrFPS]
    /\ IF lrFPS = 0
       THEN pc' = [pc EXCEPT !["FC"] = "panicked", !["Run"] = "panicked"]
       ELSE Goto("FC", "img")
    /\ UNCHANGED <<lock, cancelled, cfgv, devv, cam, captured, framev, afv,
                   ctlv, clientv, bcv>>

\* getLiveViewImg: Lock, RunTransaction(GetLiveViewImg)
FC_Img_Begin ==
    /\ Alive
    /\ pc["FC"] = "img"
    /\ Free("mtpLock")
    /\ IF dummy
       THEN /\ Goto("FC", "iso")
            /\ UNCHANGED <<lock, devv>>
       ELSE /\ lock' = [lock EXCEPT !["mtpLock"] = "FC"]
            /\ BeginTx("FC", "GetLiveViewImg", 0)
            /\ Goto("FC", "img_tx")
    /\ UNCHANGED <<cancelled, cfgv, cam, captured, framev, afv, ctlv,
                   clientv, bcv, hist>>

\* The camera delivers a frame only in live view
CanDeliver == cam.lv /\ captured < MaxFrames

\* A faulty length test: a reply of exactly HeaderSize bytes passes
CaptureFails_Strict(r) == r.err # "none" \/ r.len < HeaderSize

\* getLiveViewImgInner returns an error: the transaction failed, or
\* buf.Len() <= hs
CaptureFails(r) == r.err # "none" \/ r.len <= HeaderSize

\* getLiveViewImgInner returns; Unlock.  A failure (NotLiveView, another
\* error, a reply no longer than the header) sleeps and loops.
FC_Img_End ==
    /\ Alive
    /\ pc["FC"] = "img_tx"
    /\ EndTx("FC")
    /\ lock' = [lock EXCEPT !["mtpLock"] = "none"]
    /\ \E r \in ImgReplies :
        /\ r.err = "none" => CanDeliver
        /\ hist' = [hist EXCEPT !.lastReply =
                        IF r.err = "none" THEN r ELSE NoReply]
        /\ IF CaptureFails(r)
           THEN /\ Goto("FC", "loop")
                /\ UNCHANGED <<captured, lv>>
           ELSE /\ captured' = captured + 1
                /\ lv' = captured + 1
                /\ Goto("FC", "iso")
    /\ UNCHANGED <<cancelled, cfgv, cam, Frame, info, newFrameChan, fps, afv,
                   ctlv, clientv, bcv>>

FC_ISO_Begin ==
    /\ GetProp_Begin("FC", "iso", "ExposureIndex", "fn")
    /\ UNCHANGED <<cancelled, cfgv, cam, captured, framev, afv, ctlv,
                   clientv, bcv, hist>>

\* getISOs returns, with the current ISO or with an error (the captor then
\* uses 0): either way the capture goes on
FC_ISO_End ==
    /\ Alive
    /\ pc["FC"] = "iso_tx"
    /\ EndTx("FC")
    /\ lock' = [lock EXCEPT !["mtpLock"] = "none"]
    /\ Goto("FC", "fn")
    /\ UNCHANGED <<cancelled, cfgv, cam, captured, framev, afv, ctlv,
                   clientv, bcv, hist>>

FC_FN_Begin ==
    /\ GetProp_Begin("FC", "fn", "FNumber", "set_f")
    /\ UNCHANGED <<cancelled, cfgv, cam, captured, framev, afv, ctlv,
                   clientv, bcv, hist>>

\* getFNs returns, with the current f-number or with an error (the captor
\* then uses "0"): either way the capture goes on
FC_FN_End ==
    /\ Alive
    /\ pc["FC"] = "fn_tx"
    /\ EndTx("FC")
    /\ lock' = [lock EXCEPT !["mtpLock"] = "none"]
    /\ Goto("FC", "set_f")
    /\ UNCHANGED <<cancelled, cfgv, cam, captured, framev, afv, ctlv,
                   clientv, bcv, hist>>

\* set: s.frameLock.Lock()
FC_Set_LockFrame ==
    /\ Alive
    /\ pc["FC"] = "set_f"
    /\ Free("frameLock")
    /\ lock' = [lock EXCEPT !["frameLock"] = "FC"]
    /\ Goto("FC", "set_i")
    /\ UNCHANGED <<cancelled, cfgv, devv, cam, captured, framev, afv, ctlv,
                   clientv, bcv, hist>>

\* A faulty store: captures are stored in the reverse of capture order
StoredFrame_Reversed(l) == IF l = 0 THEN 0 ELSE MaxFrames + 1 - l

\* s.Frame = lv.JPEG
StoredFrame(l) == l

\* A faulty store: the dimensions of the info cell are left as they were
StoredDims_Kept(l) == info.W

\* s.info.Width = int(lv.LVWidth); s.info.Height = int(lv.LVHeight)
StoredDims(l) == l

\* set: s.infoLock.Lock(); the frame and the info are written; the
\* non-blocking send on newFrameChan; both locks are released; then
\* s.fpsRate.Incr(1)
FC_Set_Store ==
    /\ Alive
    /\ pc["FC"] = "set_i"
    /\ Free("infoLock")
    /\ Frame' = StoredFrame(lv)
    /\ info' = [info EXCEPT !.W = StoredDims(lv)]
    /\ newFrameChan' = 1
    /\ fps' = fps + 1
    /\ lock' = [lock EXCEPT !["frameLock"] = "none"]
    /\ hist' = [hist EXCEPT !.nStored = @ + 1, !.lastReply = NoReply]
    /\ lv' = 0   \* lv is dead until the next capture
    /\ Goto("FC", "loop")
    /\ UNCHANGED <<cancelled, cfgv, devv, cam, captured, afv, ctlv,
                   clientv, bcv>>

FCStep ==
    \/ FC_Done \/ FC_Go \/ FC_Img_Begin \/ FC_Img_End
    \/ FC_ISO_Begin \/ FC_ISO_End \/ FC_FN_Begin \/ FC_FN_End
    \/ FC_Set_LockFrame \/ FC_Set_Store

\* the rate limiter, reached only once a client has set lr_fps
FCThrottleStep == FC_Throttle

----------------------------------------------------------------------------
(* copyFrame, as each of its three callers runs it *)

\* A faulty copy: the copy cached in the info cell is returned
CopiedFrame_Cached == info.Frame

\* return s.Frame[:]
CopiedFrame == Frame

----------------------------------------------------------------------------
(* workerBroadcastFrame: the frame broadcaster *)

StreamIds == {"s1", "s2"}
MotionIds == {"m1"}
ControlIds == {"c1"}

BF_Done ==
    /\ Alive
    /\ pc["BF"] = "select"
    /\ cancelled
    /\ Goto("BF", "done")
    /\ UNCHANGED <<lock, cancelled, cfgv, devv, cam, captured, framev, afv,
                   ctlv, clientv, bcv, hist>>

\* case <-s.newFrameChan; copyFrame is called next
BF_Recv ==
    /\ Alive
    /\ pc["BF"] = "select"
    /\ newFrameChan = 1
    /\ newFrameChan' = 0
    /\ hist' = [hist EXCEPT !.readAt["BF"] = hist.nStored]
    /\ Goto("BF", "copy")
    /\ UNCHANGED <<lock, cancelled, cfgv, devv, cam, captured, lv, Frame,
                   info, fps, afv, ctlv, clientv, bcv>>

\* jpeg = s.copyFrame(); an empty frame is skipped
BF_Copy ==
    /\ Alive
    /\ pc["BF"] = "copy"
    /\ Free("frameLock")
    /\ jpeg' = CopiedFrame
    /\ hist' = [hist EXCEPT !.readVal["BF"] = CopiedFrame]
    /\ Goto("BF", IF CopiedFrame = 0 THEN "select" ELSE "bc_s")
    /\ UNCHANGED <<lock, cancelled, cfgv, devv, cam, captured, framev, afv,
                   ctlv, clientv, todo, cur>>

\* broadcast: s.streamLock.Lock()
BF_LockStream ==
    /\ Alive
    /\ pc["BF"] = "bc_s"
    /\ Free("streamLock")
    /\ lock' = [lock EXCEPT !["streamLock"] = "BF"]
    /\ Goto("BF", "bc_m")
    /\ UNCHANGED <<cancelled, cfgv, devv, cam, captured, framev, afv, ctlv,
                   clientv, bcv, hist>>

\* broadcast: s.motionLock.Lock(); the two loops are about to start
BF_LockMotion ==
    /\ Alive
    /\ pc["BF"] = "bc_m"
    /\ Free("motionLock")
    /\ lock' = [lock EXCEPT !["motionLock"] = "BF"]
    /\ todo' = [todo EXCEPT !["BF"] = streamClients \cup motionClients]
    /\ Goto("BF", "bc_loop")
    /\ UNCHANGED <<cancelled, cfgv, devv, cam, captured, framev, afv, ctlv,
                   clientv, jpeg, cur, hist>>

\* The clients the loops reach next: the stream clients before the MJPEG ones
NextClients(t) == IF t \cap StreamIds # {} THEN t \cap StreamIds ELSE t

\* c.WriteMessage / w.Write starts
BF_Write_Begin ==
    /\ Alive
    /\ pc["BF"] = "bc_loop"
    /\ \E c \in NextClients(todo["BF"]) :
        /\ cur' = [cur EXCEPT !["BF"] = c]
    /\ hist' = [hist EXCEPT !.lastSent = jpeg, !.wrErr = "none"]
    /\ Goto("BF", "bc_wr")
    /\ UNCHANGED <<lock, cancelled, cfgv, devv, cam, captured, framev, afv,
                   ctlv, clientv, jpeg, todo>>

\* the write returns; an error is logged and the loop goes on
BF_Write_End ==
    /\ Alive
    /\ pc["BF"] = "bc_wr"
    /\ todo' = [todo EXCEPT !["BF"] = @ \ {cur["BF"]}]
    /\ cur' = [cur EXCEPT !["BF"] = "none"]
    /\ \E err \in BOOLEAN :
        hist' = [hist EXCEPT !.sentTo = @ \cup {cur["BF"]},
                             !.wrErr = IF err THEN cur["BF"] ELSE "none"]
    /\ Goto("BF", "bc_loop")
    /\ UNCHANGED <<lock, cancelled, cfgv, devv, cam, captured, framev, afv,
                   ctlv, clientv, jpeg>>

\* broadcast returns: the deferred Unlocks
BF_Unlock ==
    /\ Alive
    /\ pc["BF"] = "bc_loop"
    /\ todo["BF"] = {}
    /\ lock' = [lock EXCEPT !["motionLock"] = "none", !["streamLock"] = "none"]
    /\ jpeg' = 0
    /\ hist' = [hist EXCEPT !.readAt["BF"] = 0, !.readVal["BF"] = 0,
                            !.sentTo = {}, !.wrErr = "none"]
    /\ Goto("BF", "select")
    /\ UNCHANGED <<cancelled, cfgv, devv, cam, captured, framev, afv, ctlv,
                   clientv, todo, cur>>

\* the broadcaster's steps while no client is registered
BFIdle ==
    \/ BF_Done \/ BF_Recv \/ BF_Copy \/ BF_LockStream \/ BF_LockMotion
    \/ BF_Unlock

BFStep == BFIdle \/ BF_Write_Begin \/ BF_Write_End

----------------------------------------------------------------------------
(* workerBroadcastInfo: the info broadcaster *)

BI_Done ==
    /\ Alive
    /\ pc["BI"] = "select"
    /\ cancelled
    /\ Goto("BI", "done")
    /\ UNCHANGED <<lock, cancelled, cfgv, devv, cam, captured, framev, afv,
                   ctlv, clientv, bcv, hist>>

\* case <-tick.C; broadcast is called next
BI_Tick ==
    /\ Alive
    /\ pc["BI"] = "select"
    /\ Goto("BI", "bi_c")
    /\ UNCHANGED <<lock, cancelled, cfgv, devv, cam, captured, framev, afv,
                   ctlv, clientv, bcv, hist>>

\* broadcast: s.controlLock.Lock()
BI_LockControl ==
    /\ Alive
    /\ pc["BI"] = "bi_c"
    /\ Free("controlLock")
    /\ lock' = [lock EXCEPT !["controlLock"] = "BI"]
    /\ Goto("BI", "bi_i")
    /\ UNCHANGED <<cancelled, cfgv, devv, cam, captured, framev, afv, ctlv,
                   clientv, bcv, hist>>

\* broadcast: s.infoLock.Lock(); copyFrame is called next
BI_LockInfo ==
    /\ Alive
    /\ pc["BI"] = "bi_i"
    /\ Free("infoLock")
    /\ lock' = [lock EXCEPT !["infoLock"] = "BI"]
    /\ hist' = [hist EXCEPT !.readAt["BI"] = hist.nStored]
    /\ Goto("BI", "bi_f")
    /\ UNCHANGED <<cancelled, cfgv, devv, cam, captured, framev, afv, ctlv,
                   clientv, bcv>>

\* s.info.Frame = s.copyFrame(), which locks frameLock; the loop is about to start
BI_Copy ==
    /\ Alive
    /\ pc["BI"] = "bi_f"
    /\ Free("frameLock")
    /\ info' = [info EXCEPT !.Frame = CopiedFrame]
    /\ hist' = [hist EXCEPT !.readVal["BI"] = CopiedFrame]
    /\ todo' = [todo EXCEPT !["BI"] = controlClients]
    /\ Goto("BI", "bi_loop")
    /\ UNCHANGED <<lock, cancelled, cfgv, devv, cam, captured, lv, Frame,
                   newFrameChan, fps, afv, ctlv, clientv, jpeg, cur>>

\* json.Marshal(s.info); c.WriteMessage starts
BI_Write_Begin ==
    /\ Alive
    /\ pc["BI"] = "bi_loop"
    /\ \E c \in todo["BI"] : cur' = [cur EXCEPT !["BI"] = c]
    /\ Goto("BI", "bi_wr")
    /\ UNCHANGED <<lock, cancelled, cfgv, devv, cam, captured, framev, afv,
                   ctlv, clientv, jpeg, todo, hist>>

\* the write returns, with or without an error: the loop goes on
BI_Write_End ==
    /\ Alive
    /\ pc["BI"] = "bi_wr"
    /\ todo' = [todo EXCEPT !["BI"] = @ \ {cur["BI"]}]
    /\ cur' = [cur EXCEPT !["BI"] = "none"]
    /\ Goto("BI", "bi_loop")
    /\ UNCHANGED <<lock, cancelled, cfgv, devv, cam, captured, framev, afv,
                   ctlv, clientv, jpeg, hist>>

\* broadcast returns: the deferred Unlocks
BI_Unlock ==
    /\ Alive
    /\ pc["BI"] = "bi_loop"
    /\ todo["BI"] = {}
    /\ lock' = [lock EXCEPT !["infoLock"] = "none", !["controlLock"] = "none"]
    /\ hist' = [hist EXCEPT !.readAt["BI"] = 0, !.readVal["BI"] = 0]
    /\ Goto("BI", "select")
    /\ UNCHANGED <<cancelled, cfgv, devv, cam, captured, framev, afv, ctlv,
                   clientv, bcv>>

\* the broadcaster's steps while no client is registered
BIIdle ==
    \/ BI_Done \/ BI_Tick \/ BI_LockControl \/ BI_LockInfo \/ BI_Copy
    \/ BI_Unlock

BIStep == BIIdle \/ BI_Write_Begin \/ BI_Write_End

----------------------------------------------------------------------------
(* HandleControl: one /control connection *)

FieldOrder == <<"af", "now", "lr", "iso", "fn">>

\* The position after field number n of message m: the next field that is
\* present, or the next ReadJSON
RECURSIVE After(_, _)
After(m, n) ==
    IF n >= Len(FieldOrder) THEN "read"
    ELSE IF FieldOrder[n + 1] \in m.has THEN "m_" \o FieldOrder[n + 1]
    ELSE After(m, n + 1)

\* HandleControl moves on after field n; the payload is dead once the
\* message is done
HC_Advance(n) ==
    /\ Goto("HC", After(msg, n))
    /\ msg' = IF After(msg, n) = "read" THEN NoPayload ELSE msg

\* s.upgrader.Upgrade succeeds; registerControlClient
HC_Register ==
    /\ Alive
    /\ pc["HC"] = "idle"
    /\ Free("controlLock")
    /\ controlClients' = controlClients \cup {"c1"}
    /\ Goto("HC", "read")
    /\ UNCHANGED <<lock, cancelled, cfgv, devv, cam, captured, framev, afv,
                   ctlv, streamClients, motionClients, bcv, hist>>

\* s.upgrader.Upgrade fails: the error is logged and HandleControl goes on
\* with the connection it was given, nil: registerControlClient(nil); the
\* first ReadJSON on the nil connection then ends the handler, which never
\* reaches unregisterControlClient
HC_UpgradeFails ==
    /\ Alive
    /\ pc["HC"] = "idle"
    /\ Free("controlLock")
    /\ controlClients' = controlClients \cup {"nil"}
    /\ Goto("HC", "closed")
    /\ UNCHANGED <<lock, cancelled, cfgv, devv, cam, captured, framev, afv,
                   ctlv, streamClients, motionClients, bcv, hist>>

\* ws.ReadJSON(&p) returns a message, one of M, up to n messages in all
HC_ReadOf(M, n) ==
    /\ Alive
    /\ pc["HC"] = "read"
    /\ nMsgs < n
    /\ \E m \in M :
        /\ msg' = m
        /\ Goto("HC", After(m, 0))
    /\ nMsgs' = nMsgs + 1
    /\ hist' = [hist EXCEPT !.fnResult = "none", !.fnArg = 0]
    /\ fnLog' = <<>>   \* the history of the previous message is over
    /\ UNCHANGED <<lock, cancelled, cfgv, tx, cam, captured, framev, afv,
                   lrFPS, clientv, bcv>>

HC_Read == HC_ReadOf(Msgs, MaxMsgs)

\* a client that sends only ISO and f-number messages
HC_ReadDev == HC_ReadOf(DevMsgs, MaxMsgs)

\* a client that sends only autofocus messages
HC_ReadAF == HC_ReadOf(AFMsgs, MaxAFMsgs)

\* ws.ReadJSON fails: the client is gone; unregisterControlClient;
\* HandleControl returns
HC_Unregister ==
    /\ Alive
    /\ pc["HC"] = "read"
    /\ Free("controlLock")
    /\ controlClients' = controlClients \ {"c1"}
    /\ Goto("HC", "closed")
    /\ UNCHANGED <<lock, cancelled, cfgv, devv, cam, captured, framev, afv,
                   ctlv, streamClients, motionClients, bcv, hist>>

\* a client that sends only rate-limit messages
HC_ReadRate == HC_ReadOf(RateMsgs, MaxLRMsgs)

\* a client that sends only messages with all five fields
HC_ReadFull == HC_ReadOf(FullMsgs, MaxMsgs)

\* A faulty handler: the ticker is stopped but the message is not abandoned
HC_AFInterval_NoContinue ==
    /\ Alive
    /\ pc["HC"] = "m_af"
    /\ Free("infoLock")
    /\ info' = [info EXCEPT !.AF = msg.af]
    /\ afRunning' = (msg.af > 0)
    /\ afInterval' = IF msg.af > 0 THEN msg.af ELSE afInterval
    /\ HC_Advance(1)
    /\ hist' = [hist EXCEPT !.stopSeen = (msg.af <= 0)]
    /\ UNCHANGED <<lock, cancelled, cfgv, devv, cam, captured, lv, Frame,
                   newFrameChan, fps, afTickC, afCause, nMsgs, lrFPS, clientv, bcv>>

\* p.AFInterval: setInfo under infoLock, then the ticker is started and the
\* interval stored, or the ticker is stopped and the message abandoned
HC_AFInterval ==
    /\ Alive
    /\ pc["HC"] = "m_af"
    /\ Free("infoLock")
    /\ info' = [info EXCEPT !.AF = msg.af]
    /\ IF msg.af > 0
       THEN /\ afRunning' = TRUE
            /\ afInterval' = msg.af
            /\ HC_Advance(1)
       ELSE /\ afRunning' = FALSE
            /\ Goto("HC", "read")
            /\ msg' = NoPayload
            /\ UNCHANGED afInterval
    /\ hist' = [hist EXCEPT !.stopSeen = (msg.af <= 0)]
    /\ UNCHANGED <<lock, cancelled, cfgv, devv, cam, captured, lv, Frame,
                   newFrameChan, fps, afTickC, afCause, nMsgs, lrFPS, clientv, bcv>>

\* workerAF is parked in its select with nothing else ready: only then does
\* a send on the unbuffered afNowChan find a receiver
AFReceives == pc["AF"] = "select" /\ afTickC = 0 /\ ~cancelled

\* p.AFFocusNow: select { case s.afNowChan <- true: default: }
HC_FocusNow ==
    /\ Alive
    /\ pc["HC"] = "m_now"
    /\ IF AFReceives
       THEN /\ pc' = [pc EXCEPT !["HC"] = After(msg, 2), !["AF"] = "af"]
            /\ afCause' = "now"
       ELSE /\ Goto("HC", After(msg, 2))
            /\ UNCHANGED afCause
    /\ msg' = IF After(msg, 2) = "read" THEN NoPayload ELSE msg
    /\ hist' = [hist EXCEPT
         !.nowMsgs = IF hist.stopSeen THEN @ + 1 ELSE @,
         !.nowTaken = IF hist.stopSeen /\ AFReceives THEN @ + 1 ELSE @,
         !.nowPending = IF AFReceives THEN hist.stopSeen ELSE @]
    /\ UNCHANGED <<lock, cancelled, cfgv, devv, cam, captured, framev,
                   afRunning, afTickC, afInterval, nMsgs, lrFPS, clientv, bcv>>

\* p.LRFPS: setInfo under infoLock, then s.lrFPS.Store
HC_LRFPS ==
    /\ Alive
    /\ pc["HC"] = "m_lr"
    /\ Free("infoLock")
    /\ info' = [info EXCEPT !.LR = msg.lr]
    /\ lrFPS' = msg.lr
    /\ HC_Advance(3)
    /\ UNCHANGED <<lock, cancelled, cfgv, devv, cam, captured, lv, Frame,
                   newFrameChan, fps, afv, nMsgs, clientv, bcv, hist>>

\* A faulty setISO: the property is written without mtpLock
HC_ISO_Begin_NoLock ==
    /\ Alive
    /\ pc["HC"] = "m_iso"
    /\ IF dummy
       THEN /\ HC_Advance(4)
            /\ UNCHANGED <<devv, hist>>
       ELSE /\ BeginTx("HC", "SetDevicePropValue:ExposureIndex", msg.iso % 65536)
            /\ Goto("HC", "m_iso_tx")
            /\ hist' = [hist EXCEPT !.camBefore = cam]
            /\ UNCHANGED msg
    /\ UNCHANGED <<lock, cancelled, cfgv, cam, captured, framev, afv, nMsgs,
                   lrFPS, clientv, bcv>>

\* setISO: Lock, SetDevicePropValue(ExposureIndex, uint16(iso))
HC_ISO_Begin ==
    /\ Alive
    /\ pc["HC"] = "m_iso"
    /\ Free("mtpLock")
    /\ IF dummy
       THEN /\ HC_Advance(4)
            /\ UNCHANGED <<lock, devv, hist>>
       ELSE /\ lock' = [lock EXCEPT !["mtpLock"] = "HC"]
            /\ BeginTx("HC", "SetDevicePropValue:ExposureIndex", msg.iso % 65536)
            /\ Goto("HC", "m_iso_tx")
            /\ hist' = [hist EXCEPT !.camBefore = cam]
            /\ UNCHANGED msg
    /\ UNCHANGED <<cancelled, cfgv, cam, captured, framev, afv, nMsgs, lrFPS,
                   clientv, bcv>>

\* SetDevicePropValue returns; Unlock
HC_ISO_End ==
    /\ Alive
    /\ pc["HC"] = "m_iso_tx"
    /\ EndTx("HC")
    /\ lock' = [lock EXCEPT !["mtpLock"] = "none"]
    /\ \E ok \in BOOLEAN :
        /\ cam' = IF ok THEN [cam EXCEPT !.iso = msg.iso % 65536] ELSE cam
        /\ hist' = [hist EXCEPT
             !.camBefore = NoCam,
             !.failKept = @ /\ (ok \/ cam' = hist.camBefore)]
    /\ HC_Advance(4)
    /\ UNCHANGED <<cancelled, cfgv, captured, framev, afv, nMsgs, lrFPS,
                   clientv, bcv>>

\* setFN: Lock; with no device, or when ParseFloat fails, it returns; else
\* EndLiveView is issued
HC_FN_Begin ==
    /\ Alive
    /\ pc["HC"] = "m_fn"
    /\ Free("mtpLock")
    /\ IF dummy \/ msg.fn < 0
       THEN /\ HC_Advance(5)
            /\ UNCHANGED <<lock, devv, hist>>
       ELSE /\ lock' = [lock EXCEPT !["mtpLock"] = "HC"]
            /\ BeginTx("HC", "EndLiveView", 0)
            /\ Goto("HC", "fn_end_tx")
            /\ hist' = [hist EXCEPT !.fnArg = msg.fn, !.camBefore = cam]
            /\ UNCHANGED msg
    /\ UNCHANGED <<cancelled, cfgv, cam, captured, framev, afv, nMsgs, lrFPS,
                   clientv, bcv>>

\* setFN returns with an error: Unlock
HC_FN_Fail ==
    /\ tx' = [tx EXCEPT !["HC"] = "none"]
    /\ fnLog' = <<>>
    /\ lock' = [lock EXCEPT !["mtpLock"] = "none"]
    /\ hist' = [hist EXCEPT !.fnResult = "err", !.camBefore = NoCam,
                            !.failKept = @ /\ (cam = hist.camBefore)]
    /\ HC_Advance(5)

\* EndLiveView returns: on success SetDevicePropValue(FNumber, uint16(fnf*100))
HC_FN_EndLV_End ==
    /\ Alive
    /\ pc["HC"] = "fn_end_tx"
    /\ \E ok \in BOOLEAN :
        IF ok
        THEN /\ cam' = [cam EXCEPT !.lv = FALSE]
             /\ NextTx("HC", "SetDevicePropValue:FNumber", FnTimes100(msg.fn))
             /\ Goto("HC", "fn_set_tx")
             /\ UNCHANGED <<lock, msg, hist>>
        ELSE /\ HC_FN_Fail
             /\ UNCHANGED cam
    /\ UNCHANGED <<cancelled, cfgv, captured, framev, afv, nMsgs, lrFPS,
                   clientv, bcv>>

\* SetDevicePropValue returns: on success StartLiveView
HC_FN_Set_End ==
    /\ Alive
    /\ pc["HC"] = "fn_set_tx"
    /\ \E ok \in BOOLEAN :
        IF ok
        THEN /\ cam' = [cam EXCEPT !.fn = FnTimes100(msg.fn)]
             /\ NextTx("HC", "StartLiveView", 0)
             /\ Goto("HC", "fn_start_tx")
             /\ UNCHANGED <<lock, msg, hist>>
        ELSE /\ HC_FN_Fail
             /\ UNCHANGED cam
    /\ UNCHANGED <<cancelled, cfgv, captured, framev, afv, nMsgs, lrFPS,
                   clientv, bcv>>

\* StartLiveView returns; Unlock; setFN returns nil or the error
HC_FN_Start_End ==
    /\ Alive
    /\ pc["HC"] = "fn_start_tx"
    /\ \E ok \in BOOLEAN :
        IF ok
        THEN /\ cam' = [cam EXCEPT !.lv = TRUE]
             /\ EndTx("HC")
             /\ lock' = [lock EXCEPT !["mtpLock"] = "none"]
             /\ hist' = [hist EXCEPT !.fnResult = "ok", !.camBefore = NoCam]
             /\ HC_Advance(5)
        ELSE /\ HC_FN_Fail
             /\ UNCHANGED cam
    /\ UNCHANGED <<cancelled, cfgv, captured, framev, afv, nMsgs, lrFPS,
                   clientv, bcv>>

HCConn == HC_Register \/ HC_Unregister
HCAf == HC_AFInterval \/ HC_FocusNow
HCDev ==
    \/ HC_ISO_Begin \/ HC_ISO_End
    \/ HC_FN_Begin \/ HC_FN_EndLV_End \/ HC_FN_Set_End \/ HC_FN_Start_End

HCStep == HCConn \/ HC_Read \/ HCAf \/ HC_LRFPS \/ HCDev

----------------------------------------------------------------------------
(* HandleStream, HandleMotionJPEG and HandleSnapshot *)

\* registerStreamClient for the connection handled by h, whose socket is c
RegisterStream(h, c) ==
    /\ Alive
    /\ pc[h] = "idle"
    /\ Free("streamLock")
    /\ streamClients' = streamClients \cup {c}
    /\ Goto(h, "read")
    /\ UNCHANGED <<lock, cancelled, cfgv, devv, cam, captured, framev, afv,
                   ctlv, controlClients, motionClients, bcv, hist>>

\* A faulty unregister: the client is deleted without streamLock
UnregisterStream_NoLock(h, c) ==
    /\ Alive
    /\ pc[h] = "read"
    /\ streamClients' = streamClients \ {c}
    /\ Goto(h, "closed")
    /\ UNCHANGED <<lock, cancelled, cfgv, devv, cam, captured, framev, afv,
                   ctlv, controlClients, motionClients, bcv, hist>>

\* ws.ReadJSON fails: the client is gone; unregisterStreamClient
UnregisterStream(h, c) ==
    /\ Alive
    /\ pc[h] = "read"
    /\ Free("streamLock")
    /\ streamClients' = streamClients \ {c}
    /\ Goto(h, "closed")
    /\ UNCHANGED <<lock, cancelled, cfgv, devv, cam, captured, framev, afv,
                   ctlv, controlClients, motionClients, bcv, hist>>

\* s.upgrader.Upgrade fails: the error is logged and HandleStream goes on
\* with the connection it was given, nil: registerStreamClient(nil); the
\* first ReadJSON on the nil connection then ends the handler, which never
\* reaches unregisterStreamClient
SH_UpgradeFails ==
    /\ Alive
    /\ pc["SH"] = "idle"
    /\ Free("streamLock")
    /\ streamClients' = streamClients \cup {"nil"}
    /\ Goto("SH", "closed")
    /\ UNCHANGED <<lock, cancelled, cfgv, devv, cam, captured, framev, afv,
                   ctlv, controlClients, motionClients, bcv, hist>>

\* GET /stream arrives and is upgraded; registerStreamClient
SH_Register == RegisterStream("SH", "s1")

\* the first stream client disconnects
SH_Unregister == UnregisterStream("SH", "s1")

\* a second stream connection
SH2_Register == RegisterStream("SH2", "s2")

\* the second stream client disconnects
SH2_Unregister == UnregisterStream("SH2", "s2")

\* GET /mjpeg arrives; registerMotionClient, which locks controlLock
MH_Register ==
    /\ Alive
    /\ pc["MH"] = "idle"
    /\ Free("controlLock")
    /\ motionClients' = motionClients \cup {"m1"}
    /\ Goto("MH", "wait")
    /\ UNCHANGED <<lock, cancelled, cfgv, devv, cam, captured, framev, afv,
                   ctlv, streamClients, controlClients, bcv, hist>>

\* <-r.Context().Done(); unregisterMotionClient, which locks motionLock
MH_Unregister ==
    /\ Alive
    /\ pc["MH"] = "wait"
    /\ Free("motionLock")
    /\ motionClients' = motionClients \ {"m1"}
    /\ Goto("MH", "closed")
    /\ UNCHANGED <<lock, cancelled, cfgv, devv, cam, captured, framev, afv,
                   ctlv, streamClients, controlClients, bcv, hist>>

\* GET /snapshot arrives; copyFrame is called next
SN_Request ==
    /\ Alive
    /\ pc["SN"] = "idle"
    /\ hist.snaps < MaxSnaps
    /\ hist' = [hist EXCEPT !.snaps = @ + 1, !.readAt["SN"] = hist.nStored]
    /\ Goto("SN", "copy")
    /\ UNCHANGED <<lock, cancelled, cfgv, devv, cam, captured, framev, afv,
                   ctlv, clientv, bcv>>

\* jpeg = s.copyFrame()
SN_Copy ==
    /\ Alive
    /\ pc["SN"] = "copy"
    /\ Free("frameLock")
    /\ hist' = [hist EXCEPT !.readVal["SN"] = CopiedFrame]
    /\ Goto("SN", "write")
    /\ UNCHANGED <<lock, cancelled, cfgv, devv, cam, captured, framev, afv,
                   ctlv, clientv, bcv>>

\* writer.Write(jpeg); HandleSnapshot returns
SN_Write ==
    /\ Alive
    /\ pc["SN"] = "write"
    /\ hist' = [hist EXCEPT !.readAt["SN"] = 0, !.readVal["SN"] = 0]
    /\ Goto("SN", "idle")
    /\ UNCHANGED <<lock, cancelled, cfgv, devv, cam, captured, framev, afv,
                   ctlv, clientv, bcv>>

StreamStep == SH_Register \/ SH_Unregister
Stream2Step == SH2_Register \/ SH2_Unregister

\* requests whose WebSocket upgrade fails
UpgradeFailStep == SH_UpgradeFails \/ HC_UpgradeFails
MotionStep == MH_Register \/ MH_Unregister
SnapshotStep == SN_Request \/ SN_Copy \/ SN_Write

----------------------------------------------------------------------------
(* Specifications.  Spec is the whole server.  The others are the server   *)
(* in an environment that leaves some of its inputs out, and with the      *)
(* goroutines that take no part in what is checked left unscheduled; each  *)
(* keeps every goroutine that touches the state its properties read.       *)

Next ==
    \/ Cancel
    \/ RunStep
    \/ LVStep
    \/ LVResStep
    \/ Ticker_Tick
    \/ AFStep
    \/ FCStep
    \/ FCThrottleStep
    \/ BFStep
    \/ BIStep
    \/ HCStep
    \/ StreamStep
    \/ Stream2Step
    \/ UpgradeFailStep
    \/ MotionStep
    \/ SnapshotStep

Spec == Init /\ [][Next]_vars

\* The server with no client connected
NextCore ==
    \/ Cancel \/ RunStep \/ LVStep \/ Ticker_Tick \/ AFStep \/ FCStep
    \/ BFIdle \/ BIIdle

SpecCore == Init /\ [][NextCore]_vars

\* The goroutines that use the device, with a control client that sends ISO
\* and f-number messages.  The two broadcasters, which never touch the
\* device or mtpLock, only return.
NextMtp ==
    \/ Cancel \/ RunStep \/ LVStep \/ Ticker_Tick \/ AFStep \/ FCStep
    \/ BF_Done \/ BI_Done
    \/ HCConn \/ HC_ReadDev \/ HCDev

SpecMtp == Init /\ [][NextMtp]_vars

\* Autofocus: the ticker, workerAF and a control client that sends
\* autofocus messages, with the other device users competing for mtpLock.
NextAF ==
    \/ Cancel \/ RunStep \/ LVStep \/ Ticker_Tick \/ AFStep \/ FCStep
    \/ BF_Done \/ BI_Done
    \/ HCConn \/ HC_ReadAF \/ HCAf

SpecAF == Init /\ [][NextAF]_vars

\* The frame store and its three readers; the autofocus ticker stays silent
NextRead ==
    \/ Cancel \/ RunStep \/ LVStep \/ AF_Done \/ FCStep \/ BFIdle \/ BIIdle
    \/ SnapshotStep

SpecRead == Init /\ [][NextRead]_vars

\* The broadcasters with a stream, an MJPEG and a control client; the
\* autofocus ticker stays silent
NextWithClients ==
    \/ Cancel \/ RunStep \/ LVStep \/ AF_Done \/ FCStep \/ BFStep \/ BIStep
    \/ StreamStep \/ MotionStep \/ HCConn

SpecClients == Init /\ [][NextWithClients]_vars

\* The frame broadcaster with a stream and an MJPEG client, and no control
\* client
NextStream ==
    \/ Cancel \/ RunStep \/ LVStep \/ AF_Done \/ FCStep \/ BFStep \/ BIIdle
    \/ StreamStep \/ MotionStep

SpecStream == Init /\ [][NextStream]_vars

\* The frame broadcaster with two stream clients; the autofocus worker and
\* the info broadcaster only return
NextDisconnect ==
    \/ Cancel \/ RunStep \/ LVStep \/ AF_Done \/ FCStep \/ BFStep \/ BI_Done
    \/ StreamStep \/ Stream2Step

SpecDisconnect == Init /\ [][NextDisconnect]_vars

\* workerLV against a camera in any prohibit condition; the other workers
\* only return
NextReason ==
    \/ Cancel \/ RunStep \/ LVStep \/ AF_Done \/ FC_Done \/ BF_Done \/ BI_Done

SpecReason == InitReason /\ [][NextReason]_vars

\* HandleControl with a client whose messages carry every field; of the
\* workers only workerAF, which receives the focus-now requests, runs
NextFull ==
    \/ Cancel \/ RunStep \/ LV_Done \/ Ticker_Tick \/ AFStep \/ FC_Done
    \/ BF_Done \/ BI_Done
    \/ HCConn \/ HC_ReadFull \/ HCAf \/ HC_LRFPS \/ HCDev

SpecFull == Init /\ [][NextFull]_vars

\* workerLV with a control client whose f-number messages end and restart
\* live view; the other workers only return
NextPoll ==
    \/ Cancel \/ RunStep \/ LVStep \/ AF_Done \/ FC_Done \/ BF_Done \/ BI_Done
    \/ HCConn \/ HC_ReadDev \/ HCDev

SpecPoll == Init /\ [][NextPoll]_vars

\* The same, scheduled fairly: Run, workerLV and HandleControl step when
\* they can, every device call returns, and a LiveViewStatus read that is
\* made again and again is answered again and again
FairPoll ==
    /\ SpecPoll
    /\ WF_vars(RunStep) /\ WF_vars(LVStep) /\ WF_vars(HCDev)
    /\ SF_vars(LV_Status_Answered)

\* workerLV with maxResolution set; the other workers only return
NextRes ==
    \/ Cancel \/ RunStep \/ LVStep \/ LVResStep
    \/ AF_Done \/ FC_Done \/ BF_Done \/ BI_Done

SpecRes == InitRes /\ [][NextRes]_vars

\* The frame captor with a control client that sets and clears the rate
\* limit; the autofocus worker and the broadcasters only return
NextRate ==
    \/ Cancel \/ RunStep \/ LVStep \/ AF_Done \/ FCStep \/ FCThrottleStep
    \/ BF_Done \/ BI_Done
    \/ HCConn \/ HC_ReadRate \/ HC_LRFPS

SpecRate == Init /\ [][NextRate]_vars

\* The stream and control handlers with upgrades that succeed or fail; the
\* workers only return
NextUpgrade ==
    \/ Cancel \/ RunStep \/ LV_Done \/ AF_Done \/ FC_Done \/ BF_Done \/ BI_Done
    \/ StreamStep \/ HCConn \/ UpgradeFailStep

SpecUpgrade == Init /\ [][NextUpgrade]_vars

\* The info broadcaster with a control client that sends nothing
NextInfo ==
    \/ Cancel \/ RunStep \/ LVStep \/ AF_Done \/ FCStep \/ BFIdle \/ BIStep
    \/ HCConn

SpecInfo == Init /\ [][NextInfo]_vars

\* The server with no client connected, every goroutine scheduled fairly:
\* a goroutine that can step does, a select takes a case that is ready
\* again and again (Go chooses among ready cases at random), and every
\* device call returns.
FairCore ==
    /\ SpecCore
    /\ WF_vars(RunStep) /\ WF_vars(LVStep) /\ WF_vars(AFStep)
    /\ WF_vars(FCStep) /\ WF_vars(BFIdle) /\ WF_vars(BIIdle)
    /\ SF_vars(LV_Done) /\ SF_vars(AF_Done) /\ SF_vars(FC_Done)
    /\ SF_vars(BF_Done) /\ SF_vars(BI_Done)

----------------------------------------------------------------------------
(* Properties *)

\* The lock p is blocked on, or is about to request, at its position
Wants(p) ==
    CASE p = "Run" /\ pc[p] \in {"isos", "fns", "end"} -> "mtpLock"
      [] p = "LV" /\ pc[p] \in {"status", "slv"} -> "mtpLock"
      [] p = "AF" /\ pc[p] = "af" -> "mtpLock"
      [] p = "FC" /\ pc[p] \in {"img", "iso", "fn"} -> "mtpLock"
      [] p = "FC" /\ pc[p] = "set_f" -> "frameLock"
      [] p = "FC" /\ pc[p] = "set_i" -> "infoLock"
      [] p = "BF" /\ pc[p] = "copy" -> "frameLock"
      [] p = "BF" /\ pc[p] = "bc_s" -> "streamLock"
      [] p = "BF" /\ pc[p] = "bc_m" -> "motionLock"
      [] p = "BI" /\ pc[p] = "bi_c" -> "controlLock"
      [] p = "BI" /\ pc[p] = "bi_i" -> "infoLock"
      [] p = "BI" /\ pc[p] = "bi_f" -> "frameLock"
      [] p = "HC" /\ pc[p] \in {"m_af", "m_lr"} -> "infoLock"
      [] p = "HC" /\ pc[p] \in {"m_iso", "m_fn"} -> "mtpLock"
      [] p = "SN" /\ pc[p] = "copy" -> "frameLock"
      [] OTHER -> "none"

Held(p) == {l \in Locks : lock[l] = p}

\* p is inside a device round-trip other than the identity call Run makes
\* before it starts anything
InDeviceCall(p) == tx[p] # "none" /\ ~(p = "Run" /\ pc["Run"] = "id_tx")

(* C1: no two device transactions overlap.  At most one of the lifecycle   *)
(* worker, the autofocus worker, the frame captor, the control handler and *)
(* the shutdown path is inside a device round-trip, and whoever is inside  *)
(* one holds mtpLock.                                                      *)
MtpMutualExclusion ==
    /\ \A p \in DevProcs : InDeviceCall(p) => lock["mtpLock"] = p
    /\ \A p, q \in DevProcs : InDeviceCall(p) /\ InDeviceCall(q) => p = q

\* setFN is writing the f-number while the captor, the autofocus worker and
\* the lifecycle worker all wait for mtpLock
MtpContended ==
    /\ tx["HC"] = "SetDevicePropValue:FNumber"
    /\ pc["FC"] = "img"
    /\ pc["AF"] = "af"
    /\ pc["LV"] = "status"

\* The declared order: mtpLock, streamLock/motionLock, controlLock,
\* frameLock, infoLock
Rank(l) ==
    CASE l = "mtpLock" -> 1
      [] l \in {"streamLock", "motionLock"} -> 2
      [] l = "controlLock" -> 3
      [] l = "frameLock" -> 4
      [] l = "infoLock" -> 5

\* The captor and the info broadcaster each hold one of frameLock and
\* infoLock and wait for the other
FrameInfoDeadlock ==
    /\ lock["frameLock"] = "FC" /\ Wants("FC") = "infoLock"
    /\ lock["infoLock"] = "BI" /\ Wants("BI") = "frameLock"

(* C2: lock-order obedience.  No goroutine requests a lock that precedes   *)
(* one it already holds in the declared order, and so the captor and the   *)
(* info broadcaster never each hold one of frameLock and infoLock while    *)
(* waiting for the other.                                                  *)
LockOrderObeyed ==
    /\ \A p \in Procs : \A l \in Held(p) :
          Wants(p) # "none" => Rank(Wants(p)) >= Rank(l)
    /\ ~FrameInfoDeadlock

\* The workers are running and the cancellation signal has fired
CancelledRunning == cancelled /\ pc["Run"] = "wait"

(* C3: quiescence.  Once the cancellation signal has fired with the        *)
(* workers running, every worker eventually returns and Run eventually     *)
(* returns, under fair scheduling with every device call terminating.      *)
Quiescence == CancelledRunning ~> (AllWorkersDone /\ pc["Run"] = "returned")

(* C4: when Run terminates with a device attached, the shutdown path has   *)
(* sent EndLiveView exactly once, and sent it after all five workers had   *)
(* returned, whether the command succeeded or failed.                      *)
EndLiveViewOnce ==
    /\ hist.runEndLV <= 1
    /\ hist.runEndLV = 1 => hist.endAfterWorkers
    /\ tx["Run"] = "EndLiveView" => AllWorkersDone
    /\ pc["Run"] = "returned" => hist.runEndLV = 1

\* Run has returned after the workers were cancelled while live view was
\* on, and its EndLiveView failed: the camera is still in live view
ReturnedEndFailed ==
    /\ pc["Run"] = "returned"
    /\ cancelled
    /\ hist.runEndLV = 1
    /\ cam.lv


\* A reader has finished its copy of the frame store
ReadDone(r) ==
    CASE r = "BF" -> pc["BF"] \in {"bc_s", "bc_m", "bc_loop", "bc_wr"}
      [] r = "BI" -> pc["BI"] \in {"bi_loop", "bi_wr"}
      [] r = "SN" -> pc["SN"] = "write"

(* C5: latest-wins.  A read of the frame store that starts after the       *)
(* captor has stored N frames returns frame N or a later one, whoever the  *)
(* reader is: the frame broadcaster, the info broadcaster or the snapshot  *)
(* handler.                                                                *)
LatestWins ==
    \A r \in Readers :
        /\ ReadDone(r) => hist.readVal[r] >= hist.readAt[r]
        /\ hist.readVal[r] <= hist.nStored

\* Every reader has read, the snapshot handler a frame stored after its
\* read was requested
ReadLaterFrame ==
    /\ \A r \in Readers : ReadDone(r) /\ hist.readAt[r] >= 1
    /\ hist.readVal["SN"] > hist.readAt["SN"]

(* C6: capture order.  The frames the frame broadcaster writes to stream   *)
(* and MJPEG clients never go back: a write never carries a frame captured *)
(* before the one the previous write carried.                              *)
BroadcastInCaptureOrder == [][hist.lastSent' >= hist.lastSent]_vars

\* The second capture is being written to the MJPEG client, after the stream
\* client got it
SecondFrameBroadcast ==
    /\ pc["BF"] = "bc_wr"
    /\ cur["BF"] \in MotionIds
    /\ streamClients # {}
    /\ hist.lastSent = 2

(* C7: the captor never blocks on a slow client.  While a broadcaster is   *)
(* inside a write to a stream, MJPEG or control client, the captor is not  *)
(* waiting for a lock that broadcaster holds.                              *)
CaptorFreeOfClientIO ==
    \A b \in {"BF", "BI"} :
        cur[b] # "none" /\ Wants("FC") # "none" => lock[Wants("FC")] # b

\* The transactions begun since setFN's first, but for the identity call Run
\* makes, without mtpLock, before it starts anything
IsStartupCall(e) == e.p = "Run" /\ e.op = "ID"
SinceSetFN == SelectSeq(fnLog, LAMBDA e : ~IsStartupCall(e))

\* The transactions the f-number message is to issue, with v the value written
SetFNSequence(v) ==
    <<Entry("HC", "EndLiveView", 0),
      Entry("HC", "SetDevicePropValue:FNumber", v),
      Entry("HC", "StartLiveView", 0)>>

(* C8: a successful f-number message issues exactly EndLiveView,           *)
(* SetDevicePropValue(FNumber, fn*100), StartLiveView, in that order, and  *)
(* no other goroutine's transaction begins between the first and the last. *)
SetFNIssuesSequence ==
    hist.fnResult = "ok" => SinceSetFN = SetFNSequence(hist.fnArg)

\* What setFN does issue: the same sequence with the value uint16(fnf * 100)
SetFNIssuesTruncated ==
    hist.fnResult = "ok" => SinceSetFN = SetFNSequence(FnTimes100(hist.fnArg))

\* AfDrive transactions still owed to focus-now requests workerAF has taken
NowOwed == IF pc["AF"] = "af" /\ afCause = "now" /\ hist.nowPending THEN 1 ELSE 0

DummyNeverCallsDevice ==
    dummy => hist.nilCalls = 0 /\ \A p \in DevProcs : tx[p] = "none"

(* C11: a control failure leaves the previous state unchanged.  Whenever *)
(* setISO or setFN has returned an error, the camera's live-view state,    *)
(* ISO and f-number are what they were when the message was taken up.      *)
ControlFailureKeepsState == hist.failKept

\* The captor publishes: the frame store, the capture the info cell
\* describes or the FPS counter changes, or the new-frame signal is raised
Publishes ==
    \/ Frame' # Frame
    \/ info'.W # info.W
    \/ fps' # fps
    \/ newFrameChan' > newFrameChan

\* The capture the captor holds came with more than HeaderSize bytes
HoldsFullCapture == hist.lastReply.err = "none" /\ hist.lastReply.len > HeaderSize

(* C12: a capture that fails, or whose reply is no longer than HeaderSize, *)
(* publishes nothing.  The frame store, the info cell, the new-frame       *)
(* signal and the FPS counter change only while the captor holds a capture *)
(* of more than HeaderSize bytes, and a failed capture takes the captor    *)
(* back to the top of its loop with all four unchanged.                    *)
FailedCapturePublishesNothing ==
    [][/\ Publishes => HoldsFullCapture
       /\ pc["FC"] = "img_tx" /\ pc'["FC"] = "loop" => ~Publishes]_vars

\* A reply of exactly HeaderSize bytes has just sent the captor back to the
\* top of its loop, with a frame from an earlier capture still in the store
ShortReplyDropped ==
    /\ pc["FC"] = "loop"
    /\ hist.lastReply = Reply("none", HeaderSize)
    /\ Frame = 1
    /\ fps = 1

(* C13: coherent snapshot.  Whenever the info broadcaster writes a        *)
(* snapshot to a control client, the JPEG bytes in it and the width and    *)
(* height in it come from the same capture.                                *)
CoherentSnapshot == pc["BI"] = "bi_wr" => info.Frame = info.W

\* A snapshot of the second capture is being written to a control client
SecondCaptureSnapshot ==
    /\ pc["BI"] = "bi_wr"
    /\ cur["BI"] \in controlClients
    /\ info.Frame = 2
    /\ info.W = 2

(* C14: client disconnect under load.  The frame broadcaster writes to a  *)
(* stream client only while that client is registered, so never in a cycle *)
(* that began after its unregisterStreamClient returned; a cycle ends only *)
(* when every registered stream client has been written to; and no step of *)
(* the broadcaster, a failed write included, changes a client set.         *)
DisconnectUnderLoad ==
    [][/\ pc'["BF"] = "bc_wr" /\ cur'["BF"] \in StreamIds
            => cur'["BF"] \in streamClients'
       /\ pc["BF"] = "bc_wr" /\ cur["BF"] \in StreamIds
            => cur["BF"] \in streamClients'
       /\ pc["BF"] = "bc_loop" /\ pc'["BF"] = "select"
            => streamClients \subseteq hist.sentTo
       /\ pc'["BF"] # pc["BF"] => UNCHANGED clientv]_vars

\* The first stream client has disconnected; in a cycle after that the
\* write to the second client has failed, and the second is still registered
WriteFailedAfterDisconnect ==
    /\ pc["SH"] = "closed"
    /\ pc["BF"] = "bc_loop"
    /\ hist.wrErr = "s2"
    /\ hist.sentTo = {"s2"}
    /\ streamClients = {"s2"}

\* The bits the reason table has an entry for
TableBits == {0, 2, 4, 5, 6, 7, 8, 9} \cup (11..22) \cup {24}

\* The lowest set bit of a 32-bit bitmap below 2^31, -1 for zero
LowestBit(v) ==
    IF v = 0 THEN -1
    ELSE CHOOSE i \in 0..30 : (v \div Pow2(i)) % 2 = 1 /\ v % Pow2(i) = 0

LiveViewStaysOff == pc["Run"] = "returned" /\ hist.endOk => ~cam.lv

\* A broadcast cycle for capture n has gone through every client
BroadcastDone(n) == pc["BF"] = "bc_loop" /\ todo["BF"] = {} /\ jpeg = n

(* C17: no lost wakeup.  If the captor stores frame N and then stores      *)
(* nothing more while the server keeps running, the frame broadcaster      *)
(* eventually completes a broadcast cycle for frame N.                     *)
NoLostWakeup ==
    \A n \in 1..MaxFrames :
        <>[](hist.nStored = n /\ ~cancelled) => <>BroadcastDone(n)

\* HandleControl is past the af_interval field of a message
PastAFInterval == pc["HC"] \notin {"idle", "read", "closed", "m_af"}

(* C18: a control message whose af_interval is <= 0 stops the ticker,     *)
(* sets info.AF to that value and skips every other field of the message:  *)
(* HandleControl goes straight back to reading, and afInterval, lrFPS,     *)
(* info.LR and the camera's ISO and f-number are left as they were; no     *)
(* later field of a message is ever processed after an af_interval <= 0.   *)
StopSkipsRest ==
    [][/\ pc["HC"] = "m_af" /\ msg.af <= 0 /\ pc'["HC"] # "m_af"
            => /\ ~afRunning'
               /\ info'.AF = msg.af
               /\ pc'["HC"] = "read"
               /\ afInterval' = afInterval
               /\ lrFPS' = lrFPS
               /\ info'.LR = info.LR
               /\ cam' = cam
               /\ hist'.nowMsgs = hist.nowMsgs
       /\ PastAFInterval' /\ "af" \in msg'.has => msg'.af > 0]_vars

\* A message with af_interval -1 and the four other fields has been
\* handled: the ticker is stopped and nothing else of the message applied
StoppedAndSkipped ==
    /\ pc["HC"] = "read"
    /\ nMsgs = 1
    /\ info.AF = -1
    /\ ~afRunning
    /\ afInterval = 5
    /\ lrFPS = 0 /\ info.LR = 0
    /\ cam.iso = 100 /\ cam.fn = 350
    /\ hist.nowMsgs = 0

\* The server runs against a camera whose live view is off
RunningOff == ~cam.lv /\ ~cancelled /\ ~dummy /\ Alive

\* workerLV is inside startLiveView
InStartLiveView ==
    pc["LV"] \in {"slv", "slv_ready_tx", "slv_start_tx", "slv_reason_tx"}

Largest(choices) ==
    CHOOSE v \in {choices[i] : i \in 1..Len(choices)} :
        \A i \in 1..Len(choices) : choices[i] <= v

\* A value has been written to the Resolution property
ResolutionWritten == cam.resolution.cur # 0

(* C20: with maxResolution set, the value startLiveView writes to the      *)
(* Resolution property is the numerically largest of the enumerated        *)
(* choices, in whatever order the device lists them, and the resolution    *)
(* step, an empty enumeration included, never stops startLiveView.         *)
LargestResolutionWritten ==
    /\ ResolutionWritten => cam.resolution.cur = Largest(cam.resolution.choices)
    /\ pc["LV"] # "panicked"

\* Only the first part: the value written is the largest choice
WrittenIsLargest ==
    ResolutionWritten => cam.resolution.cur = Largest(cam.resolution.choices)

\* Only the second part: the resolution step never stops startLiveView
ResolutionStepNotFatal == pc["LV"] # "panicked"

(* C21: the rate limiter never divides by zero.  The divisor the frame    *)
(* captor loads to compute the delay between frames is greater than 0 in   *)
(* every iteration, whatever HandleControl stores in lrFPS meanwhile.      *)
DivisorPositive == hist.divisor > 0

(* C22: every access to the MJPEG client set is made under motionLock.   *)
(* The set never changes while the frame broadcaster, which iterates over  *)
(* it, holds motionLock.                                                   *)
MotionSetUnderMotionLock ==
    [][motionClients' # motionClients => lock["motionLock"] # "BF"]_vars

(* C23: every member of the stream-client and control-client sets is a   *)
(* connection whose WebSocket upgrade succeeded: the nil connection of a   *)
(* failed upgrade is in neither set and no broadcaster writes to it.       *)
OnlyUpgradedClients ==
    /\ "nil" \notin streamClients \cup controlClients
    /\ cur["BF"] # "nil" /\ cur["BI"] # "nil"

====
